---- MODULE Spec2Model ----
(***************************************************************************)
(* zettelkasten_id_generator (src/main.rs): conversion between Unix        *)
(* timestamps and radix-encoded identifiers (zIDs), and the dispatch of    *)
(* main.  Strings are TLA+ strings, read character by character with       *)
(* SubSeq.  64-bit integers do not fit the model checker's integers, so    *)
(* they are kept as little-endian sequences of limbs (base LimbBase), with *)
(* the 64-bit width enforced where the program enforces it.                *)
(***************************************************************************)
EXTENDS Integers, Sequences, FiniteSets, TLC

(***************************************************************************)
(* Characters and strings                                                  *)
(***************************************************************************)
CharAt(s, i) == SubSeq(s, i, i)

RECURSIVE IndexFrom(_, _, _)
IndexFrom(c, s, i) ==
  IF i > Len(s) THEN 0
  ELSE IF CharAt(s, i) = c THEN i
  ELSE IndexFrom(c, s, i + 1)

\* position of character c in s, 0 when absent
IndexOf(c, s) == IndexFrom(c, s, 1)

LowerDigits == "0123456789abcdefghijklmnopqrstuvwxyz"
UpperLetters == "ABCDEFGHIJKLMNOPQRSTUVWXYZ"
Whitespace == {" ", "\t", "\n", "\r"}

RECURSIVE TrimStartPos(_, _)
TrimStartPos(s, i) ==
  IF i <= Len(s) /\ CharAt(s, i) \in Whitespace THEN TrimStartPos(s, i + 1) ELSE i

RECURSIVE TrimEndPos(_, _)
TrimEndPos(s, j) ==
  IF j >= 1 /\ CharAt(s, j) \in Whitespace THEN TrimEndPos(s, j - 1) ELSE j

\* str::trim
Trim(s) == SubSeq(s, TrimStartPos(s, 1), TrimEndPos(s, Len(s)))

(***************************************************************************)
(* Multi-limb naturals                                                     *)
(***************************************************************************)
LimbBase == 100 * 100

RECURSIVE Norm(_)
Norm(a) ==
  IF a = <<>> THEN <<>>
  ELSE IF a[Len(a)] = 0 THEN Norm(SubSeq(a, 1, Len(a) - 1))
  ELSE a

RECURSIVE NatOfInt(_)
NatOfInt(n) ==
  IF n = 0 THEN <<>> ELSE <<n % LimbBase>> \o NatOfInt(n \div LimbBase)

RECURSIVE IntOfNat(_)
IntOfNat(a) ==
  IF a = <<>> THEN 0 ELSE a[1] + LimbBase * IntOfNat(Tail(a))

RECURSIVE MulAddCarry(_, _, _)
MulAddCarry(a, m, carry) ==
  IF a = <<>> THEN NatOfInt(carry)
  ELSE LET v == a[1] * m + carry
       IN  <<v % LimbBase>> \o MulAddCarry(Tail(a), m, v \div LimbBase)

\* a * m + d for small m, d
MulAdd(a, m, d) == Norm(MulAddCarry(a, m, d))

RECURSIVE DivModHigh(_, _, _, _)
DivModHigh(a, m, i, acc) ==
  IF i = 0 THEN acc
  ELSE LET v == acc.r * LimbBase + a[i]
       IN  DivModHigh(a, m, i - 1, [q |-> <<v \div m>> \o acc.q, r |-> v % m])

\* quotient and remainder of a by a small m
DivMod(a, m) ==
  LET res == DivModHigh(a, m, Len(a), [q |-> <<>>, r |-> 0])
  IN  [q |-> Norm(res.q), r |-> res.r]

RECURSIVE CmpFrom(_, _, _)
CmpFrom(a, b, i) ==
  IF i = 0 THEN 0
  ELSE IF a[i] < b[i] THEN -1
  ELSE IF a[i] > b[i] THEN 1
  ELSE CmpFrom(a, b, i - 1)

\* -1, 0, 1 as a < b, a = b, a > b (both normalised)
Cmp(a, b) ==
  IF Len(a) < Len(b) THEN -1
  ELSE IF Len(a) > Len(b) THEN 1
  ELSE CmpFrom(a, b, Len(a))

RECURSIVE SubBorrow(_, _, _)
SubBorrow(a, b, borrow) ==
  IF a = <<>> THEN <<>>
  ELSE LET bl == IF b = <<>> THEN 0 ELSE b[1]
           v == a[1] - bl - borrow
       IN  IF v < 0
           THEN <<v + LimbBase>> \o SubBorrow(Tail(a), IF b = <<>> THEN b ELSE Tail(b), 1)
           ELSE <<v>> \o SubBorrow(Tail(a), IF b = <<>> THEN b ELSE Tail(b), 0)

\* a - b for a >= b
Sub(a, b) == Norm(SubBorrow(a, b, 0))

\* 2^64 = 18446744073709551616: one past the largest u64
TwoTo64 == <<1616, 955, 737, 6744, 1844>>
\* 2^63 = 9223372036854775808: one past the largest i64
TwoTo63 == <<5808, 5477, 368, 3372, 922>>

(***************************************************************************)
(* 64-bit integer casts                                                    *)
(* An i64 is [neg, mag] (sign and magnitude), a u64 a natural below 2^64.  *)
(***************************************************************************)
I64(neg, mag) == [neg |-> neg /\ mag # <<>>, mag |-> mag]

\* as_u64 with the sign dropped instead of wrapped
as_u64_abs(x) == x.mag

\* `x as u64` for an i64 x: two's complement wrap-around
as_u64(x) == IF x.neg THEN Sub(TwoTo64, x.mag) ELSE x.mag

\* as_i64 without the wrap: every u64 read as non-negative
as_i64_nowrap(x) == I64(FALSE, x)

\* `x as i64` for a u64 x: values from 2^63 on become negative
as_i64(x) ==
  IF Cmp(x, TwoTo63) >= 0 THEN I64(TRUE, Sub(TwoTo64, x)) ELSE I64(FALSE, x)

(***************************************************************************)
(* radix_fmt::radix(x, base).to_string()                                   *)
(***************************************************************************)
RECURSIVE RadixDigits(_, _)
RadixDigits(x, base) ==
  IF x = <<>> THEN ""
  ELSE LET dm == DivMod(x, base)
       IN  RadixDigits(dm.q, base) \o CharAt(LowerDigits, dm.r + 1)

RECURSIVE RadixDigitsUpper(_, _)
RadixDigitsUpper(x, base) ==
  IF x = <<>> THEN ""
  ELSE LET dm == DivMod(x, base)
       IN  RadixDigitsUpper(dm.q, base)
             \o (IF dm.r < 10 THEN CharAt(LowerDigits, dm.r + 1)
                 ELSE CharAt(UpperLetters, dm.r - 9))

\* radix with uppercase letters for the digits from ten on
radix_upper(x, base) == IF x = <<>> THEN "0" ELSE RadixDigitsUpper(x, base)

\* minimal-length digits of the u64 x in `base`, lowercase
radix(x, base) == IF x = <<>> THEN "0" ELSE RadixDigits(x, base)

(***************************************************************************)
(* u64::from_str_radix                                                     *)
(***************************************************************************)
\* to_digit with the bound off by one: the value `rdx` itself passes
to_digit_inclusive(c, rdx) ==
  LET lo == IndexOf(c, LowerDigits)
      up == IndexOf(c, UpperLetters)
      v == IF lo > 0 THEN lo - 1 ELSE IF up > 0 THEN up + 9 ELSE -1
  IN  IF v >= 0 /\ v <= rdx THEN v ELSE -1

\* char::to_digit: the digit's value, or -1 when c is no digit of the radix
to_digit(c, rdx) ==
  LET lo == IndexOf(c, LowerDigits)
      up == IndexOf(c, UpperLetters)
      v == IF lo > 0 THEN lo - 1 ELSE IF up > 0 THEN up + 9 ELSE -1
  IN  IF v >= 0 /\ v < rdx THEN v ELSE -1

RECURSIVE ParseDigits(_, _, _, _)
ParseDigits(s, rdx, i, acc) ==
  IF i > Len(s) THEN [ok |-> TRUE, val |-> acc]
  ELSE LET d == to_digit(CharAt(s, i), rdx)
       IN  IF d < 0 THEN [ok |-> FALSE, val |-> <<>>]
           ELSE LET next == MulAdd(acc, rdx, d)
                IN  IF Cmp(next, TwoTo64) >= 0
                    THEN [ok |-> FALSE, val |-> <<>>]
                    ELSE ParseDigits(s, rdx, i + 1, next)

from_str_radix(src, rdx) ==
  IF src = "" THEN [ok |-> FALSE, val |-> <<>>]
  ELSE IF CharAt(src, 1) \in {"+", "-"} /\ Len(src) = 1
       THEN [ok |-> FALSE, val |-> <<>>]
  ELSE IF CharAt(src, 1) = "+"
       THEN ParseDigits(SubSeq(src, 2, Len(src)), rdx, 1, <<>>)
  ELSE ParseDigits(src, rdx, 1, <<>>)

(***************************************************************************)
(* chrono: the proleptic Gregorian calendar in UTC                         *)
(***************************************************************************)
\* the years of NaiveDate::MIN and NaiveDate::MAX (later chrono releases
\* narrow both by one year)
MAX_YEAR == 262143
MIN_YEAR == -262144
SecsPerDay == 24 * 3600

IsLeap(y) == (y % 4 = 0 /\ y % 100 # 0) \/ y % 400 = 0

DaysInMonth(y, m) ==
  IF m = 2 THEN (IF IsLeap(y) THEN 29 ELSE 28)
  ELSE IF m \in {4, 6, 9, 11} THEN 30
  ELSE 31

\* days from 1970-01-01 to the civil date y-m-d
days_from_civil(y, m, d) ==
  LET yy == IF m <= 2 THEN y - 1 ELSE y
      era == yy \div 400
      yoe == yy - era * 400
      mp == IF m > 2 THEN m - 3 ELSE m + 9
      doy == (153 * mp + 2) \div 5 + d - 1
      doe == yoe * 365 + yoe \div 4 - yoe \div 100 + doy
  IN  era * 146097 + doe - 719468

\* the civil date of day number z (days from 1970-01-01)
civil_from_days(z) ==
  LET zz == z + 719468
      era == zz \div 146097
      doe == zz - era * 146097
      yoe == (doe - doe \div 1460 + doe \div 36524 - doe \div 146096) \div 365
      doy == doe - (365 * yoe + yoe \div 4 - yoe \div 100)
      mp == (5 * doy + 2) \div 153
      d == doy - (153 * mp + 2) \div 5 + 1
      m == IF mp < 10 THEN mp + 3 ELSE mp - 9
      y == yoe + era * 400 + (IF m <= 2 THEN 1 ELSE 0)
  IN  [year |-> y, month |-> m, day |-> d]

NoDateTime ==
  [ok |-> FALSE, year |-> 0, month |-> 0, day |-> 0, hour |-> 0, minute |-> 0, second |-> 0]

\* NaiveDate::from_ymd_opt + and_hms_opt
from_ymd_hms(y, m, d, hh, mm, ss) ==
  IF /\ y >= MIN_YEAR /\ y <= MAX_YEAR
     /\ m >= 1 /\ m <= 12
     /\ d >= 1 /\ d <= DaysInMonth(y, m)
     /\ hh >= 0 /\ hh <= 23 /\ mm >= 0 /\ mm <= 59 /\ ss >= 0 /\ ss <= 59
  THEN [ok |-> TRUE, year |-> y, month |-> m, day |-> d,
        hour |-> hh, minute |-> mm, second |-> ss]
  ELSE NoDateTime

\* Utc.from_local_datetime(&dt).unwrap().timestamp(): an i64
timestamp(dt) ==
  LET days == days_from_civil(dt.year, dt.month, dt.day)
      sod == dt.hour * 3600 + dt.minute * 60 + dt.second
  IN  IF days >= 0
      THEN I64(FALSE, MulAdd(NatOfInt(days), SecsPerDay, sod))
      ELSE I64(TRUE, Sub(MulAdd(NatOfInt(-days), SecsPerDay, 0), NatOfInt(sod)))

\* NaiveDateTime::from_timestamp_opt(secs, 0) for an i64 secs
from_timestamp_opt(secs) ==
  LET dm == DivMod(secs.mag, SecsPerDay)
  IN  IF Len(dm.q) > 2 THEN NoDateTime
      ELSE LET q == IntOfNat(dm.q)
               days == IF ~secs.neg THEN q ELSE IF dm.r = 0 THEN -q ELSE -(q + 1)
               sod == IF ~secs.neg \/ dm.r = 0 THEN dm.r ELSE SecsPerDay - dm.r
               date == civil_from_days(days)
           IN  IF \/ days < days_from_civil(MIN_YEAR, 1, 1)
                  \/ days > days_from_civil(MAX_YEAR, 12, 31)
               THEN NoDateTime
               ELSE [ok |-> TRUE, year |-> date.year, month |-> date.month,
                     day |-> date.day, hour |-> sod \div 3600,
                     minute |-> (sod % 3600) \div 60, second |-> sod % 60]

(***************************************************************************)
(* chrono: formatting with %Y-%m-%d and %Y-%m-%dT%H:%M:%S                  *)
(***************************************************************************)
DecimalDigits == "0123456789"

RECURSIVE DecStr(_)
DecStr(n) ==
  IF n < 10 THEN CharAt(DecimalDigits, n + 1)
  ELSE DecStr(n \div 10) \o CharAt(DecimalDigits, (n % 10) + 1)

RECURSIVE ZeroPad(_, _)
ZeroPad(str, width) == IF Len(str) >= width THEN str ELSE ZeroPad("0" \o str, width)

\* %Y: four digits for 0..9999, otherwise a sign and at least four digits
FormatYear(y) ==
  IF y >= 0 /\ y <= 9999 THEN ZeroPad(DecStr(y), 4)
  ELSE IF y < 0 THEN "-" \o ZeroPad(DecStr(-y), 4)
  ELSE "+" \o ZeroPad(DecStr(y), 4)

format_date(dt) ==
  FormatYear(dt.year) \o "-" \o ZeroPad(DecStr(dt.month), 2) \o "-" \o ZeroPad(DecStr(dt.day), 2)

\* format_iso_date with a space for the "T"
format_iso_date_space(dt) ==
  format_date(dt) \o " " \o ZeroPad(DecStr(dt.hour), 2) \o ":"
    \o ZeroPad(DecStr(dt.minute), 2) \o ":" \o ZeroPad(DecStr(dt.second), 2)

format_iso_date(dt) ==
  format_date(dt) \o "T" \o ZeroPad(DecStr(dt.hour), 2) \o ":"
    \o ZeroPad(DecStr(dt.minute), 2) \o ":" \o ZeroPad(DecStr(dt.second), 2)

(***************************************************************************)
(* chrono: parsing with %Y-%m-%d and %Y-%m-%dT%H:%M:%S                     *)
(* A scan is [ok, pos, vals]: the next position to read and the numbers    *)
(* read so far.  A numeric item skips leading whitespace, accepts one to   *)
(* `width` digits, and a signed one (%Y) any number of digits after a sign.*)
(***************************************************************************)
ScanStart == [ok |-> TRUE, pos |-> 1, vals |-> <<>>]
ScanFail == [ok |-> FALSE, pos |-> 0, vals |-> <<>>]

\* values from here on are out of range for every field; digits saturate
SatCap == 10 * 1000 * 1000

IsDigit(c) == IndexOf(c, DecimalDigits) > 0

RECURSIVE DigitRunEnd(_, _, _)
DigitRunEnd(s, i, limit) ==
  IF i <= Len(s) /\ i < limit /\ IsDigit(CharAt(s, i))
  THEN DigitRunEnd(s, i + 1, limit)
  ELSE i

RECURSIVE DecValue(_, _, _, _)
DecValue(s, i, j, acc) ==
  IF i >= j THEN acc
  ELSE DecValue(s, i + 1, j,
                IF acc >= SatCap THEN acc
                ELSE acc * 10 + IndexOf(CharAt(s, i), DecimalDigits) - 1)

Numeric(st, s, width, signed) ==
  IF ~st.ok THEN st
  ELSE LET p == TrimStartPos(s, st.pos)
           c == IF p <= Len(s) THEN CharAt(s, p) ELSE ""
           isSign == signed /\ c \in {"+", "-"}
           from == IF isSign THEN p + 1 ELSE p
           limit == IF isSign THEN Len(s) + 1 ELSE from + width
           to == DigitRunEnd(s, from, limit)
           v == DecValue(s, from, to, 0)
       IN  IF to = from THEN ScanFail
           ELSE [ok |-> TRUE, pos |-> to,
                 vals |-> Append(st.vals, IF isSign /\ c = "-" THEN -v ELSE v)]

Literal(st, s, lit) ==
  IF ~st.ok THEN st
  ELSE IF st.pos + Len(lit) - 1 <= Len(s)
          /\ SubSeq(s, st.pos, st.pos + Len(lit) - 1) = lit
       THEN [st EXCEPT !.pos = st.pos + Len(lit)]
  ELSE ScanFail

ScanDate(st, s) ==
  Numeric(Literal(Numeric(Literal(Numeric(st, s, 4, TRUE), s, "-"), s, 2, FALSE), s, "-"),
          s, 2, FALSE)

ScanTime(st, s) ==
  Numeric(Literal(Numeric(Literal(Numeric(st, s, 2, FALSE), s, ":"), s, 2, FALSE), s, ":"),
          s, 2, FALSE)

\* NaiveDate::parse_from_str(&input, "%Y-%m-%d") followed by and_hms_opt(0, 0, 0)
NaiveDate_parse_from_str(input) ==
  LET st == ScanDate(ScanStart, input)
  IN  IF st.ok /\ st.pos = Len(input) + 1
      THEN from_ymd_hms(st.vals[1], st.vals[2], st.vals[3], 0, 0, 0)
      ELSE NoDateTime

\* NaiveDateTime::parse_from_str(&input, "%Y-%m-%dT%H:%M:%S"); a second of 60
\* is read as a leap second, whose timestamp is that of second 59
NaiveDateTime_parse_from_str(input) ==
  LET st == ScanTime(Literal(ScanDate(ScanStart, input), input, "T"), input)
  IN  IF st.ok /\ st.pos = Len(input) + 1
      THEN from_ymd_hms(st.vals[1], st.vals[2], st.vals[3], st.vals[4], st.vals[5],
                        IF st.vals[6] = 60 THEN 59 ELSE st.vals[6])
      ELSE NoDateTime

(***************************************************************************)
(* The converters of src/main.rs.  A result is [ok, val, msg, ts]: the     *)
(* returned string, or the message of the panic that ended the call, and   *)
(* the 64-bit value the call held in `unix_time as u64` / `timestamp`.     *)
(***************************************************************************)
Ok(val, ts) == [ok |-> TRUE, val |-> val, msg |-> "", ts |-> ts]
Panic(msg, ts) == [ok |-> FALSE, val |-> "", msg |-> msg, ts |-> ts]
NoResult == [ok |-> FALSE, val |-> "", msg |-> "", ts |-> <<>>]

max_base == 36
min_base == 10

Max(a, b) == IF a >= b THEN a ELSE b
Min(a, b) == IF a <= b THEN a ELSE b

get_base_radix(input) == Max(min_base, Min(max_base, input))

now_to_zid(base, now) ==
  LET unix_time == I64(FALSE, NatOfInt(now))
  IN  Ok(radix(as_u64(unix_time), base), as_u64(unix_time))

zid_from_date(base, input) ==
  LET datetime == NaiveDate_parse_from_str(input)
  IN  IF ~datetime.ok THEN Panic("Failed to parse date", <<>>)
      ELSE LET unix_time == timestamp(datetime)
           IN  Ok(radix(as_u64(unix_time), base), as_u64(unix_time))

zid_from_iso_date(base, input) ==
  LET datetime == NaiveDateTime_parse_from_str(input)
  IN  IF ~datetime.ok THEN Panic("Failed to parse date", <<>>)
      ELSE LET unix_time == timestamp(datetime)
           IN  Ok(radix(as_u64(unix_time), base), as_u64(unix_time))

zid_to_date(base, input) ==
  LET timestamp_ == from_str_radix(input, base)
  IN  IF ~timestamp_.ok THEN Panic("Failed to parse input", <<>>)
      ELSE LET naive_datetime == from_timestamp_opt(as_i64(timestamp_.val))
           IN  IF ~naive_datetime.ok THEN Panic("Failed to parse zid", timestamp_.val)
               ELSE Ok(format_date(naive_datetime), timestamp_.val)

\* zid_to_iso_date with zid_to_date's format string
zid_to_iso_date_dateonly(base, input) == zid_to_date(base, input)

zid_to_iso_date(base, input) ==
  LET timestamp_ == from_str_radix(input, base)
  IN  IF ~timestamp_.ok THEN Panic("Failed to parse input", <<>>)
      ELSE LET naive_datetime == from_timestamp_opt(as_i64(timestamp_.val))
           IN  IF ~naive_datetime.ok THEN Panic("Failed to parse zid", timestamp_.val)
               ELSE Ok(format_iso_date(naive_datetime), timestamp_.val)

(***************************************************************************)
(* The inputs of the model                                                 *)
(***************************************************************************)
\* longest generated zID candidate handed to the decoders
MaxLen == 2
\* most whitespace characters put on each side of a command-line input
MaxPad == 1

Range(seq) == {seq[i] : i \in DOMAIN seq}

\* UTC datetimes from the epoch on, each with its Unix timestamp t
IsoSamples == <<
  [iso |-> "1970-01-01T00:00:00", t |-> <<>>],
  [iso |-> "1970-01-01T00:00:59", t |-> <<59>>],
  [iso |-> "1970-01-01T23:59:59", t |-> <<6399, 8>>],
  [iso |-> "1970-01-02T00:00:00", t |-> <<6400, 8>>],
  [iso |-> "1972-02-29T12:30:00", t |-> <<4600, 6821>>],
  [iso |-> "1999-12-31T23:59:59", t |-> <<4799, 4668, 9>>],
  [iso |-> "2000-02-29T23:59:59", t |-> <<8799, 5186, 9>>],
  [iso |-> "2000-03-01T00:00:00", t |-> <<8800, 5186, 9>>],
  [iso |-> "2001-01-01T06:35:42", t |-> <<942, 7833, 9>>],
  [iso |-> "2001-01-01T07:35:42", t |-> <<4542, 7833, 9>>],
  [iso |-> "2026-11-02T21:30:00", t |-> <<5000, 9365, 17>>],
  [iso |-> "2038-01-19T03:14:07", t |-> <<3647, 4748, 21>>],
  [iso |-> "2038-01-19T03:14:08", t |-> <<3648, 4748, 21>>],
  [iso |-> "2100-02-28T23:59:59", t |-> <<2399, 754, 41>>],
  [iso |-> "2100-03-01T12:00:00", t |-> <<5600, 758, 41>>],
  [iso |-> "2106-02-07T06:28:16", t |-> <<7296, 9496, 42>>],
  [iso |-> "9999-12-31T23:59:59", t |-> <<799, 230, 2534>>]
>>

\* dates before the epoch, each with the seconds from its midnight to the
\* epoch (secs = -t) and the wrapped value 2^64 + t
PreEpochSamples == <<
  [date |-> "1969-12-31", secs |-> <<6400, 8>>, wrapped |-> <<5216, 946, 737, 6744, 1844>>],
  [date |-> "1969-01-01", secs |-> <<6000, 3153>>, wrapped |-> <<5616, 7801, 736, 6744, 1844>>],
  [date |-> "1968-02-29", secs |-> <<800, 5806>>, wrapped |-> <<816, 5149, 736, 6744, 1844>>],
  [date |-> "1900-03-01", secs |-> <<1200, 389, 22>>, wrapped |-> <<416, 566, 715, 6744, 1844>>],
  [date |-> "1900-02-28", secs |-> <<7600, 397, 22>>, wrapped |-> <<4016, 557, 715, 6744, 1844>>],
  [date |-> "1600-02-29", secs |-> <<8400, 7099, 116>>, wrapped |-> <<3216, 3855, 620, 6744, 1844>>],
  [date |-> "1582-10-15", secs |-> <<2800, 1929, 122>>, wrapped |-> <<8816, 9025, 614, 6744, 1844>>],
  [date |-> "1000-01-01", secs |-> <<4000, 1022, 306>>, wrapped |-> <<7616, 9932, 430, 6744, 1844>>],
  [date |-> "0001-01-01", secs |-> <<6800, 3559, 621>>, wrapped |-> <<4816, 7395, 115, 6744, 1844>>],
  [date |-> "0000-12-31", secs |-> <<3200, 3568, 621>>, wrapped |-> <<8416, 7386, 115, 6744, 1844>>],
  [date |-> "0000-01-01", secs |-> <<9200, 6721, 621>>, wrapped |-> <<2416, 4233, 115, 6744, 1844>>]
>>

DateInputs ==
  {s.date : s \in Range(PreEpochSamples)} \cup
  {"1970-01-01", "2001-01-01", "2000-02-29", "9999-12-31", "+10000-01-01",
   "2001-1-1", "2001-02-30", "2001-13-01", "2001-01-01T07:35:42", "g6gio0", ""}

IsoInputs ==
  {s.iso : s \in Range(IsoSamples)} \cup
  {"1969-12-31T23:59:59", "2001-01-01T07:35:60", "2001-01-01T24:00:00",
   "2001-02-30T00:00:00", "2001-01-01 07:35:42", "2001-01-01", ""}

Alphabet == {"0", "9", "a", "z", "Z", "+", "-", " "}

RECURSIVE Strings(_)
Strings(n) ==
  IF n = 0 THEN {""}
  ELSE Strings(n - 1) \cup {s \o c : s \in Strings(n - 1), c \in Alphabet}

ZidInputs ==
  Strings(MaxLen) \cup
  {"g6gio0", "ky5i0", "978330942", "978307200", "G6GIO0", "+g6gio0", "+978330942",
   "-978330942", "g6gio0 ", "3w5e11264sgsf", "3w5e11264sgsg",
   "9223372036854775807", "9223372036854775808", "10000000000000",
   "18446744073709465216", "18446744073709551615", "18446744073709551616"}

\* readings of the clock (Utc::now().timestamp())
NowTimes == {0, 978307200, 1793655000, 2147483647}

Fns == {"now_to_zid", "zid_from_date", "zid_from_iso_date", "zid_to_date", "zid_to_iso_date"}

InputsOf(f) ==
  IF f = "zid_from_date" THEN DateInputs
  ELSE IF f = "zid_from_iso_date" THEN IsoInputs
  ELSE IF f = "now_to_zid" THEN {""}
  ELSE ZidInputs

RECURSIVE Rep(_, _)
Rep(c, n) == IF n = 0 THEN "" ELSE c \o Rep(c, n - 1)

\* what the user may type as the positional input
CliInputs ==
  {Rep(" ", i) \o core \o Rep("\n", j) :
     i \in 0..MaxPad, j \in 0..MaxPad,
     core \in {"2001-01-01", "2001-01-01T07:35:42", "1969-12-31", "2001-02-30",
               "g6gio0", "978330942", "zz zz"}}

\* what the user may type after -r (36 when the option is absent)
RadixArgs == {5, 9, 10, 16, 36, 37, 50, 300}

NoInput == [present |-> FALSE, value |-> ""]

Cli ==
  [input : {NoInput} \cup {[present |-> TRUE, value |-> v] : v \in CliInputs},
   radix : RadixArgs,
   from_date : BOOLEAN, from_iso_date : BOOLEAN,
   to_date : BOOLEAN, to_iso_date : BOOLEAN]

NoArgs ==
  [input |-> NoInput, radix |-> 36, from_date |-> FALSE, from_iso_date |-> FALSE,
   to_date |-> FALSE, to_iso_date |-> FALSE]

NoOrigin == [fn |-> "", input |-> ""]

(***************************************************************************)
(* State                                                                   *)
(***************************************************************************)
VARIABLES
  pc,      \* where the run is: in main, or around a converter call
  args,    \* the command line (Cli)
  base,    \* main's `base`; the converter's `base`
  input,   \* main's `input`; the converter's `input`
  fn,      \* the converter selected by main's if-chain
  res,     \* what the converter returned, or the panic that ended it
  stdout,  \* the writes to standard output, in order
  origin   \* the call whose output is being decoded back, if any

vars == <<pc, args, base, input, fn, res, stdout, origin>>

(***************************************************************************)
(* main                                                                    *)
(***************************************************************************)
Init ==
  /\ pc = "parse"
  /\ args \in Cli
  /\ base = 0
  /\ input = ""
  /\ fn = ""
  /\ res = NoResult
  /\ stdout = <<>>
  /\ origin = NoOrigin

AnySwitch(a) == a.from_date \/ a.from_iso_date \/ a.to_date \/ a.to_iso_date

\* value_parser!(u8).range(10..37) on radix
RadixAccepted(n) == n >= 0 /\ n <= 255 /\ n >= 10 /\ n < 37

\* requires = "input" on each of the four switches
InputRequirementMet(a) == AnySwitch(a) => a.input.present

\* Cli::parse(): a rejected command line ends the process with a usage error
CliParse ==
  /\ pc = "parse"
  /\ pc' = IF RadixAccepted(args.radix) /\ InputRequirementMet(args)
           THEN "get_base" ELSE "usage_error"
  /\ UNCHANGED <<args, base, input, fn, res, stdout, origin>>

\* let base = get_base_radix(args.radix)?;
GetBase ==
  /\ pc = "get_base"
  /\ base' = get_base_radix(args.radix)
  /\ pc' = "input"
  /\ UNCHANGED <<args, input, fn, res, stdout, origin>>

\* whether main takes the input from the command line
TakesInput(a) == a.from_date \/ a.from_iso_date \/ a.to_date

\* let input = if ... { args.input.expect(..).trim().to_owned() } else { "" }
ResolveInput ==
  /\ pc = "input"
  /\ IF TakesInput(args)
     THEN IF args.input.present
          THEN /\ input' = Trim(args.input.value)
               /\ pc' = "dispatch"
               /\ res' = res
          ELSE /\ input' = input
               /\ pc' = "panicked"
               /\ res' = Panic("No input provided", <<>>)
     ELSE /\ input' = ""
          /\ pc' = "dispatch"
          /\ res' = res
  /\ UNCHANGED <<args, base, fn, stdout, origin>>

\* Select with the to-date test ahead of the from-iso-date test
Select_swapped(a) ==
  IF a.from_date THEN "zid_from_date"
  ELSE IF a.to_date THEN "zid_to_date"
  ELSE IF a.from_iso_date THEN "zid_from_iso_date"
  ELSE IF a.to_iso_date THEN "zid_to_iso_date"
  ELSE "now_to_zid"

\* the if-chain of main: which converter is called
Select(a) ==
  IF a.from_date THEN "zid_from_date"
  ELSE IF a.from_iso_date THEN "zid_from_iso_date"
  ELSE IF a.to_date THEN "zid_to_date"
  ELSE IF a.to_iso_date THEN "zid_to_iso_date"
  ELSE "now_to_zid"

Dispatch ==
  /\ pc = "dispatch"
  /\ fn' = Select(args)
  /\ pc' = "call"
  /\ UNCHANGED <<args, base, input, res, stdout, origin>>

CallNowToZid ==
  /\ pc = "call" /\ fn = "now_to_zid"
  /\ \E now \in NowTimes : res' = now_to_zid(base, now)
  /\ pc' = "returned"
  /\ UNCHANGED <<args, base, input, fn, stdout, origin>>

CallZidFromDate ==
  /\ pc = "call" /\ fn = "zid_from_date"
  /\ res' = zid_from_date(base, input)
  /\ pc' = "returned"
  /\ UNCHANGED <<args, base, input, fn, stdout, origin>>

CallZidFromIsoDate ==
  /\ pc = "call" /\ fn = "zid_from_iso_date"
  /\ res' = zid_from_iso_date(base, input)
  /\ pc' = "returned"
  /\ UNCHANGED <<args, base, input, fn, stdout, origin>>

CallZidToDate ==
  /\ pc = "call" /\ fn = "zid_to_date"
  /\ res' = zid_to_date(base, input)
  /\ pc' = "returned"
  /\ UNCHANGED <<args, base, input, fn, stdout, origin>>

CallZidToIsoDate ==
  /\ pc = "call" /\ fn = "zid_to_iso_date"
  /\ res' = zid_to_iso_date(base, input)
  /\ pc' = "returned"
  /\ UNCHANGED <<args, base, input, fn, stdout, origin>>

\* Expect with the failure ignored: the (empty) value is printed all the same
Expect_unchecked ==
  /\ pc = "returned"
  /\ pc' = "print"
  /\ UNCHANGED <<args, base, input, fn, res, stdout, origin>>

\* .expect("Failed to generate output"): a failed conversion ends the process
Expect ==
  /\ pc = "returned"
  /\ pc' = IF res.ok THEN "print" ELSE "panicked"
  /\ UNCHANGED <<args, base, input, fn, res, stdout, origin>>

\* print!("{}", zid); Ok(())
PrintZid ==
  /\ pc = "print"
  /\ stdout' = Append(stdout, res.val)
  /\ pc' = "done"
  /\ UNCHANGED <<args, base, input, fn, res, origin>>

Call ==
  \/ CallNowToZid
  \/ CallZidFromDate
  \/ CallZidFromIsoDate
  \/ CallZidToDate
  \/ CallZidToIsoDate

Next ==
  \/ CliParse
  \/ GetBase
  \/ ResolveInput
  \/ Dispatch
  \/ Call
  \/ Expect
  \/ PrintZid

Spec == Init /\ [][Next]_vars

(***************************************************************************)
(* The converters called directly, and a decoder applied to the zID an     *)
(* encoder returned (same base)                                            *)
(***************************************************************************)
InitFn ==
  /\ pc = "call"
  /\ args = NoArgs
  /\ fn \in Fns
  /\ base \in min_base..max_base
  /\ input \in InputsOf(fn)
  /\ res = NoResult
  /\ stdout = <<>>
  /\ origin = NoOrigin

Inverse(f) == IF f = "zid_from_date" THEN "zid_to_date" ELSE "zid_to_iso_date"

DecodeBack ==
  /\ pc = "returned"
  /\ res.ok
  /\ origin = NoOrigin
  /\ fn \in {"zid_from_date", "zid_from_iso_date"}
  /\ origin' = [fn |-> fn, input |-> input]
  /\ fn' = Inverse(fn)
  /\ input' = res.val
  /\ res' = NoResult
  /\ pc' = "call"
  /\ UNCHANGED <<args, base, stdout>>

NextFn ==
  \/ Call
  \/ DecodeBack

SpecFn == InitFn /\ [][NextFn]_vars

(***************************************************************************)
(* Properties                                                              *)
(***************************************************************************)
Decoders == {"zid_to_date", "zid_to_iso_date"}

\* main has passed Cli::parse and computed `base`
BaseResolved == pc \in {"input", "dispatch", "call", "returned", "print", "done", "panicked"}

\* main has chosen the converter and its input
Dispatched == pc \in {"call", "returned", "print", "done", "panicked"} /\ fn # ""

\* C1: every radix N given with -r is accepted, and the run continues with
\* base max(10, min(36, N)): N < 10 runs with 10, N > 36 with 36.
C1_RadixClampedNotRejected ==
  (pc # "parse" /\ InputRequirementMet(args)) =>
    /\ pc # "usage_error"
    /\ BaseResolved =>
         base = (IF args.radix < 10 THEN 10 ELSE IF args.radix > 36 THEN 36 ELSE args.radix)

\* C2: whichever of the four switches is set, the selected converter receives
\* the command-line input with leading and trailing whitespace removed, also
\* when to-iso-date is the only switch set.
C2_ConverterGetsTrimmedInput ==
  (Dispatched /\ AnySwitch(args) /\ args.input.present) =>
    input = Trim(args.input.value)

\* C8: main dispatches by the precedence from-date > from-iso-date > to-date >
\* to-iso-date > none; now_to_zid is selected exactly when no switch is set.
C8_DispatchPrecedence ==
  Dispatched =>
    /\ fn \in Fns
    /\ (fn = "zid_from_date") <=> args.from_date
    /\ (fn = "zid_from_iso_date") <=> (~args.from_date /\ args.from_iso_date)
    /\ (fn = "zid_to_date") <=> (~args.from_date /\ ~args.from_iso_date /\ args.to_date)
    /\ (fn = "zid_to_iso_date") <=>
         (~args.from_date /\ ~args.from_iso_date /\ ~args.to_date /\ args.to_iso_date)
    /\ (fn = "now_to_zid") <=> ~AnySwitch(args)

\* C8 witness: several switches were given and the converter of the
\* highest one has run
C8_Witness ==
  /\ pc = "returned"
  /\ ~args.from_date /\ args.from_iso_date /\ args.to_date /\ args.to_iso_date
  /\ fn = "zid_from_iso_date"

\* C9: nothing is written to standard output when argument parsing or the
\* conversion fails; the only write follows a successful conversion and is
\* exactly the converter's result.
C9_NoOutputOnFailure ==
  /\ pc \in {"usage_error", "panicked"} => stdout = <<>>
  /\ pc # "done" => stdout = <<>>
  /\ pc = "done" => (res.ok /\ stdout = <<res.val>>)

\* C9 witness: a conversion has failed and the process has ended
C9_Witness ==
  /\ pc = "panicked"
  /\ res.msg = "Failed to parse date"
  /\ args.from_date

\* the decoder's from_str_radix step succeeded (the call went on to the range check)
ParsedZid == pc = "returned" /\ fn \in Decoders /\ (res.ok \/ res.msg = "Failed to parse zid")

\* C3: for each sampled timestamp t >= 0 and each base, zid_from_iso_date
\* encodes t, and zid_to_iso_date applied to that zID returns the UTC
\* datetime of t.
C3_IsoRoundTrip ==
  \A s \in Range(IsoSamples) :
    /\ (pc = "returned" /\ fn = "zid_from_iso_date" /\ input = s.iso) =>
         (res.ok /\ res.ts = s.t)
    /\ (pc = "returned" /\ fn = "zid_to_iso_date"
          /\ origin = [fn |-> "zid_from_iso_date", input |-> s.iso]) =>
         (res.ok /\ res.val = s.iso /\ res.ts = s.t)

\* C3 witness: a base-36 zID of the last second of year 9999 was decoded back
C3_Witness ==
  /\ pc = "returned" /\ fn = "zid_to_iso_date" /\ base = 36
  /\ origin = [fn |-> "zid_from_iso_date", input |-> "9999-12-31T23:59:59"]
  /\ res.ok

\* C4 (as claimed): zid_from_date(36, "2001-01-01") returns "ky5i0".
C4_ReturnsKy5i0 ==
  (pc = "returned" /\ fn = "zid_from_date" /\ base = 36 /\ input = "2001-01-01") =>
    (res.ok /\ res.val = "ky5i0")

\* C4 (amended): zid_from_date(36, "2001-01-01") returns "g6gio0", the
\* base-36 encoding of the timestamp 978307200.
C4_ReturnsG6gio0 ==
  (pc = "returned" /\ fn = "zid_from_date" /\ base = 36 /\ input = "2001-01-01") =>
    (res.ok /\ res.val = "g6gio0" /\ res.ts = <<7200, 7830, 9>>)

\* C4 witness: the call of the claim has returned a zID
C4_Witness ==
  pc = "returned" /\ fn = "zid_from_date" /\ base = 36 /\ input = "2001-01-01" /\ res.ok

\* C5 (as claimed): zid_to_iso_date(10, "978330942") returns "2001-01-01T07:35:42".
C5_Returns0735 ==
  (pc = "returned" /\ fn = "zid_to_iso_date" /\ base = 10 /\ input = "978330942") =>
    (res.ok /\ res.val = "2001-01-01T07:35:42")

\* C5 (amended): zid_to_iso_date(10, "978330942") returns "2001-01-01T06:35:42".
C5_Returns0635 ==
  (pc = "returned" /\ fn = "zid_to_iso_date" /\ base = 10 /\ input = "978330942") =>
    (res.ok /\ res.val = "2001-01-01T06:35:42")

\* C5 witness: the call of the claim has returned a datetime
C5_Witness ==
  /\ pc = "returned" /\ fn = "zid_to_iso_date" /\ base = 10 /\ input = "978330942"
  /\ origin = NoOrigin /\ res.ok

\* the first b symbols of 0-9 followed by a-z
LowerSymbols(b) == {CharAt(LowerDigits, k) : k \in 1..b}
\* the uppercase forms of the letters among them
UpperSymbols(b) == {CharAt(UpperLetters, k) : k \in 1..(b - 10)}

AllIn(str, chars) == \A i \in 1..Len(str) : CharAt(str, i) \in chars

MaxTimestamp == <<2799, 9841, 2102, 8>>
\* 8334632851200: the seconds from the first second of year -262144 to the epoch
MinTimestampMag == <<1200, 3285, 3346, 8>>
\* the same limits one year in: chrono releases differ by that year
\* (8210266876799: the last second of year 262142)
MaxTimestampInner == <<6799, 6687, 2102, 8>>
\* (8334601228800: from the first second of year -262143 to the epoch)
MinTimestampMagInner == <<8800, 122, 3346, 8>>

\* C7 (as claimed): a zID whose parsed unsigned value lies beyond the
\* representable timestamps (every value >= 2^63 included) yields no date.
C7_RejectsBeyondRange ==
  (ParsedZid /\ Cmp(res.ts, MaxTimestamp) > 0) => ~res.ok

\* C7 (amended): the parsed value v is read as a signed 64-bit integer
\* (v - 2^64 from 2^63 on); the decoders fail when that integer lies outside
\* the representable timestamps (8210298412799 < v < 2^64 - 8334632851200,
\* which includes 2^63), and return a date, the pre-epoch date of v - 2^64,
\* for v >= 2^64 - 8334601228800.
C7_RejectsOutsideSignedRange ==
  ParsedZid =>
    /\ (Cmp(res.ts, MaxTimestamp) > 0 /\ Cmp(res.ts, Sub(TwoTo64, MinTimestampMag)) < 0)
         => (~res.ok /\ res.msg = "Failed to parse zid")
    /\ (\/ Cmp(res.ts, MaxTimestampInner) <= 0
        \/ Cmp(res.ts, Sub(TwoTo64, MinTimestampMagInner)) >= 0)
         => res.ok

\* C7 witness: 2^63 was parsed and rejected
C7_Witness ==
  ParsedZid /\ res.ts = TwoTo63 /\ ~res.ok

\* C10: for each sampled date d before 1970 (timestamp t < 0) and each base,
\* zid_from_date encodes the wrapped value 2^64 + t, and zid_to_date applied
\* to that zID reads it back as t and returns d.
C10_PreEpochRoundTrip ==
  \A s \in Range(PreEpochSamples) :
    /\ (pc = "returned" /\ fn = "zid_from_date" /\ input = s.date) =>
         /\ res.ok
         /\ res.ts = s.wrapped
         /\ from_str_radix(res.val, base) = [ok |-> TRUE, val |-> s.wrapped]
    /\ (pc = "returned" /\ fn = "zid_to_date"
          /\ origin = [fn |-> "zid_from_date", input |-> s.date]) =>
         /\ res.ok
         /\ res.val = s.date
         /\ res.ts = s.wrapped
         /\ Sub(TwoTo64, res.ts) = s.secs

\* C10 witness: the base-16 zID of 1900-03-01 was decoded back
C10_Witness ==
  /\ pc = "returned" /\ fn = "zid_to_date" /\ base = 16
  /\ origin = [fn |-> "zid_from_date", input |-> "1900-03-01"]
  /\ res.ok

====
